---- MODULE Spec2Model ----
(***************************************************************************)
(* A model of the iControl REST file system provider (IcrFS) of            *)
(* vscode-iRule: the in-memory tree of File and Directory nodes, the       *)
(* mutators (createDirectory, cacheRule, rename, delete), the write-       *)
(* through writeFile, the two nested request callbacks of connect, the     *)
(* icrfs.connect and icrfs.refresh commands with their shared              *)
(* `initialized` flag, and the _fireSoon change notifier.                  *)
(*                                                                         *)
(* Strings (uri paths, names, fullPath fields) are sequences of one-       *)
(* character strings, so that split, basename, dirname, the suffix         *)
(* concatenation and Uri.parse are computed the way the code computes      *)
(* them.  Nodes live in a heap indexed by node identity, because rename    *)
(* moves a reference and can alias or detach nodes.  Nodes that no         *)
(* reference reaches any more are dropped from the heap at the end of each *)
(* handler (the JavaScript garbage collector).  The ctime and mtime        *)
(* fields (Date.now()) are not modelled: no operation reads them.          *)
(***************************************************************************)
EXTENDS Integers, Sequences, FiniteSets

VARIABLES
    nodes,            \* heap: node id -> File or Directory object
    bufferedEvents,   \* IcrFS._bufferedEvents
    fireSoonHandle,   \* IcrFS._fireSoonHandle: 0 (undefined) or a timeout id
    timers,           \* timeouts that are armed and have neither fired nor been cleared
    options,          \* IcrFS.options (the request options object shared by connect and writeFile)
    initialized,      \* `initialized` of activate()
    conf,             \* workspace configuration conf.icrfs.bigip.*
    requests,         \* HTTP requests in flight, each with the callback it will run
    runs,             \* per connect() call: how far its callbacks got, and the order of what they did
    owed,             \* history: change records handed to _fireSoon and not yet given to the emitter
    misfired,         \* history: the emitter was given a record that was not owed (a duplicate)
    rearmed,          \* history: clearTimeout cancelled a live timeout since the last delivery
    last              \* history: the last handler that ran, its arguments and its outcome

vars == <<nodes, bufferedEvents, fireSoonHandle, timers, options, initialized,
          conf, requests, runs, owed, misfired, rearmed, last>>

-----------------------------------------------------------------------------
(* Bounds of the model *)

MaxNodes == 3     \* live nodes in the heap, the root included
MaxBuf == 4       \* a mutator is not called while more than MaxBuf - 2 records are buffered
MaxRuns == 2      \* connect() calls over a behaviour
MaxSize == 2      \* a Directory's size field stays within -MaxSize .. MaxSize

-----------------------------------------------------------------------------
(* Strings *)

Slash == "/"
Tilde == "~"
EmptyStr == <<>>

\* '.irul', appended to item.fullPath in the phase-2 loop
Suffix == <<".", "i", "r", "u", "l">>

\* String.prototype.split('/')
RECURSIVE SplitFrom(_, _, _)
SplitFrom(s, i, cur) ==
    IF i > Len(s) THEN <<cur>>
    ELSE IF s[i] = Slash THEN <<cur>> \o SplitFrom(s, i + 1, EmptyStr)
    ELSE SplitFrom(s, i + 1, Append(cur, s[i]))

Split(s) == SplitFrom(s, 1, EmptyStr)

\* s with its trailing slashes removed
RECURSIVE StripTrailing(_)
StripTrailing(s) ==
    IF Len(s) > 0 /\ s[Len(s)] = Slash THEN StripTrailing(SubSeq(s, 1, Len(s) - 1))
    ELSE s

\* path.posix.basename: the part after the last slash, trailing slashes ignored
Basename(s) ==
    LET t == StripTrailing(s)
        cuts == {i \in 1..Len(t) : t[i] = Slash}
        from == IF cuts = {} THEN 1 ELSE 1 + CHOOSE i \in cuts : \A j \in cuts : j <= i
    IN SubSeq(t, from, Len(t))

\* path.posix.dirname.  Node scans i = length-1 down to 1 (0-based) for the
\* first slash that follows a non-slash; `ends` are those positions, 1-based.
Dirname(s) ==
    IF Len(s) = 0 THEN <<".">>
    ELSE LET hasRoot == s[1] = Slash
             ends == {i \in 2..Len(s) : s[i] = Slash /\ \E j \in (i + 1)..Len(s) : s[j] # Slash}
             end == IF ends = {} THEN 0 ELSE CHOOSE i \in ends : \A j \in ends : j <= i
         IN IF end = 0 THEN (IF hasRoot THEN <<Slash>> ELSE <<".">>)
            ELSE IF hasRoot /\ end = 2 THEN <<Slash, Slash>>
            ELSE SubSeq(s, 1, end - 1)

\* vscode.Uri.parse('icrfs://' + rest): the authority runs to the first
\* slash, the path is what follows.  err is the UriError of _validateUri.
UriValid(authority, path) ==
    IF path = EmptyStr THEN TRUE
    ELSE IF authority # EmptyStr THEN path[1] = Slash
    ELSE ~(Len(path) >= 2 /\ path[1] = Slash /\ path[2] = Slash)

UriParse(rest) ==
    LET cuts == {i \in 1..Len(rest) : rest[i] = Slash}
        first == IF cuts = {} THEN Len(rest) + 1 ELSE CHOOSE i \in cuts : \A j \in cuts : i <= j
        authority == SubSeq(rest, 1, first - 1)
        path == SubSeq(rest, first, Len(rest))
    IN [err |-> IF UriValid(authority, path) THEN "ok" ELSE "UriError",
        authority |-> authority, path |-> path]

\* a uri as the host passes it: icrfs:<path>, no authority
HostUri(path) == [err |-> "ok", authority |-> EmptyStr, path |-> path]

\* uri.with({ path: p })
UriWith(uri, p) ==
    [err |-> IF UriValid(uri.authority, p) THEN "ok" ELSE "UriError",
     authority |-> uri.authority, path |-> p]

-----------------------------------------------------------------------------
(* The node model: class File and class Directory *)

Root == 0        \* identity of IcrFS.root
None == -1       \* undefined, where a node reference is expected

Undefined == <<>>        \* File.data before the first cacheRule
Some(x) == <<x>>

\* new File(name)
NewFile(name) ==
    [type |-> "File", name |-> name, size |-> 0, data |-> Undefined, entries |-> <<>>]

\* new Directory(name)
NewDirectory(name) ==
    [type |-> "Directory", name |-> name, size |-> 0, data |-> Undefined, entries |-> <<>>]

\* Directory.entries is a Map: the sequence of its [name, node] pairs in
\* insertion order.
MapHas(m, k) == \E i \in 1..Len(m) : m[i].name = k

MapGet(m, k) ==
    IF MapHas(m, k) THEN m[CHOOSE i \in 1..Len(m) : m[i].name = k].node ELSE None

\* Map.set keeps the position of a key that is already present
MapSet(m, k, v) ==
    IF MapHas(m, k)
    THEN [i \in 1..Len(m) |-> IF m[i].name = k THEN [name |-> k, node |-> v] ELSE m[i]]
    ELSE Append(m, [name |-> k, node |-> v])

MapDelete(m, k) ==
    LET keep(e) == e.name # k IN SelectSeq(m, keep)

\* the identity `new` gives: one that no live object has
FreshId(h) == CHOOSE i \in 0..Cardinality(DOMAIN h) :
                  i \notin DOMAIN h /\ \A j \in 0..Cardinality(DOMAIN h) : j \notin DOMAIN h => i <= j

\* the nodes a Directory's entries refer to, in the order of the Map
ChildSeq(h, n) == [i \in 1..Len(h[n].entries) |-> h[n].entries[i].node]

InSeq(s, x) == \E i \in 1..Len(s) : s[i] = x

\* the nodes a walk from the root gets to, parents first, in Map order
RECURSIVE Walk(_, _, _)
Walk(h, todo, order) ==
    IF todo = <<>> THEN order
    ELSE IF InSeq(order, Head(todo)) THEN Walk(h, Tail(todo), order)
    ELSE Walk(h, ChildSeq(h, Head(todo)) \o Tail(todo), Append(order, Head(todo)))

Reachable(h) == Walk(h, <<Root>>, <<>>)

\* the position of node n in a walk, counted from 0; None when the walk
\* did not get to it
IndexIn(order, n) ==
    IF InSeq(order, n) THEN (CHOOSE i \in 1..Len(order) : order[i] = n) - 1 ELSE None

\* where node n is after a collection
Relocate(h, n) == IndexIn(Reachable(h), n)

\* garbage collection: objects no reference reaches are gone.  An identity
\* is only a name for an object, so the survivors are renamed 0, 1, 2, ... in
\* the order of the walk: heaps that differ in nothing but the identities
\* that earlier allocations happened to hand out are the same state.
Collect(h) ==
    LET order == Reachable(h)
        moved(es) == [i \in 1..Len(es) |-> [name |-> es[i].name, node |-> IndexIn(order, es[i].node)]]
    IN [k \in 0..(Len(order) - 1) |-> [h[order[k + 1]] EXCEPT !.entries = moved(@)]]

-----------------------------------------------------------------------------
(* The path resolver: _lookup, _lookupAsDirectory, _lookupAsFile,           *)
(* _lookupParentDirectory.  Each returns [err, node]; err # "ok" is the     *)
(* FileSystemError the code throws.                                        *)

RECURSIVE LookupFrom(_, _, _, _)
LookupFrom(h, entry, parts, i) ==
    IF i > Len(parts) THEN entry
    ELSE IF parts[i] = EmptyStr THEN LookupFrom(h, entry, parts, i + 1)
    ELSE LET child == IF h[entry].type = "Directory"
                      THEN MapGet(h[entry].entries, parts[i]) ELSE None
         IN IF child = None THEN None ELSE LookupFrom(h, child, parts, i + 1)

Lookup(h, uri, silent) ==
    LET n == LookupFrom(h, Root, Split(uri.path), 1)
    IN [err |-> IF n = None /\ ~silent THEN "FileNotFound" ELSE "ok", node |-> n]

LookupAsDirectory(h, uri, silent) ==
    LET r == Lookup(h, uri, silent)
    IN IF r.err # "ok" THEN r
       ELSE IF r.node # None /\ h[r.node].type = "Directory" THEN r
       ELSE [err |-> "FileNotADirectory", node |-> None]

LookupAsFile(h, uri, silent) ==
    LET r == Lookup(h, uri, silent)
    IN IF r.err # "ok" THEN r
       ELSE IF r.node # None /\ h[r.node].type = "File" THEN r
       ELSE [err |-> "FileIsADirectory", node |-> None]

LookupParentDirectory(h, uri) ==
    LET dirname == UriWith(uri, Dirname(uri.path))
    IN IF dirname.err # "ok" THEN [err |-> dirname.err, node |-> None]
       ELSE LookupAsDirectory(h, dirname, FALSE)

-----------------------------------------------------------------------------
(* Read operations.  They change nothing, so they are functions of the     *)
(* tree: stat, readDirectory, readFile.                                    *)

\* stat(uri): the node's FileStat
Stat(h, uri) ==
    LET r == Lookup(h, uri, FALSE)
    IN IF r.err # "ok" THEN [err |-> r.err, type |-> "", size |-> 0]
       ELSE [err |-> "ok", type |-> h[r.node].type, size |-> h[r.node].size]

\* readDirectory(uri): the [name, type] pairs, the entry named '' left out
ReadDirectory(h, uri) ==
    LET r == LookupAsDirectory(h, uri, FALSE)
        hasName(e) == e.name # EmptyStr
    IN IF r.err # "ok" THEN [err |-> r.err, result |-> <<>>]
       ELSE LET es == SelectSeq(h[r.node].entries, hasName)
            IN [err |-> "ok",
                result |-> [i \in 1..Len(es) |-> <<es[i].name, h[es[i].node].type>>]]

\* truthiness as it is for a string: the empty one is falsy
TruthyAsString(data) == data # Undefined /\ data[1] # <<>>

\* `if (data)`: a Uint8Array is an object, and every object is truthy
Truthy(data) == data # Undefined

\* readFile(uri)
ReadFile(h, uri) ==
    LET r == LookupAsFile(h, uri, FALSE)
    IN IF r.err # "ok" THEN [err |-> r.err, data |-> Undefined]
       ELSE IF Truthy(h[r.node].data) THEN [err |-> "ok", data |-> h[r.node].data]
       ELSE [err |-> "FileNotFound", data |-> Undefined]

-----------------------------------------------------------------------------
(* The change notifier: _fireSoon and its timeout callback.                *)
(*                                                                         *)
(* A world w is the part of the state the mutators work on:                *)
(* [nodes, buf, handle, timers, owed, rearmed].                            *)

Event(type, uri) == [type |-> type, path |-> uri.path]

\* this._bufferedEvents.push(...events)
PushEvents(buf, events) == buf \o events

\* a clearTimeout that cancels nothing
KeepTimeout(armed, handle) == armed

\* clearTimeout(handle): a timeout that is still armed is cancelled; one
\* that has fired already is not in `armed`, and nothing happens
ClearTimeout(armed, handle) == armed \ {handle}

\* the Timeout object setTimeout returns: one that is not armed already
NewTimeout(armed) == CHOOSE i \in 1..(Cardinality(armed) + 1) :
                         i \notin armed /\ \A j \in 1..(Cardinality(armed) + 1) : j \notin armed => i <= j

\* _fireSoon(...events)
FireSoon(w, events) ==
    LET cleared == IF w.handle # 0 THEN ClearTimeout(w.timers, w.handle) ELSE w.timers
        t == NewTimeout(cleared)
    IN [w EXCEPT !.buf = PushEvents(w.buf, events),
                 !.handle = t,
                 !.timers = cleared \cup {t},
                 !.owed = w.owed \o events,
                 !.rearmed = w.rearmed \/ cleared # w.timers]

\* this._emitter.fire(this._bufferedEvents): the batch the listeners get
EmitterFire(buf) == buf

\* a buffer that is not emptied
KeepBuffer(buf) == buf

\* this._bufferedEvents.length = 0
Truncate(buf) == <<>>

\* s without the first occurrence of e
RemoveOne(s, e) ==
    IF \E i \in 1..Len(s) : s[i] = e
    THEN LET k == CHOOSE i \in 1..Len(s) : s[i] = e /\ \A j \in 1..Len(s) : s[j] = e => i <= j
         IN SubSeq(s, 1, k - 1) \o SubSeq(s, k + 1, Len(s))
    ELSE s

RECURSIVE RemoveAll(_, _)
RemoveAll(s, batch) ==
    IF batch = <<>> THEN s ELSE RemoveAll(RemoveOne(s, Head(batch)), Tail(batch))

\* every record of batch is in s, as often as it is in batch
SubBag(batch, s) == Len(RemoveAll(s, batch)) = Len(s) - Len(batch)

-----------------------------------------------------------------------------
(* The tree mutators.  Each takes a world and returns [err, w, node]: the  *)
(* FileSystemError thrown ("ok" when none), the world afterwards, and      *)
(* where the node the call created, moved or removed is afterwards (None   *)
(* when it is unreachable).  A call that throws leaves the world as the    *)
(* statements before the throw left it.                                    *)

Thrown(err, w) == [err |-> err, w |-> w, node |-> None]

\* createDirectory(uri)
CreateDirectoryOp(w, uri) ==
    LET h == w.nodes
        basename == Basename(uri.path)
        dirname == UriWith(uri, Dirname(uri.path))
        parent == LookupAsDirectory(h, dirname, FALSE)
        entry == FreshId(h)
        h1 == [n \in DOMAIN h \cup {entry} |-> IF n = entry THEN NewDirectory(basename) ELSE h[n]]
        h2 == [h1 EXCEPT ![parent.node].entries = MapSet(@, basename, entry),
                         ![parent.node].size = @ + 1]
    IN IF dirname.err # "ok" THEN Thrown(dirname.err, w)
       ELSE IF parent.err # "ok" THEN Thrown(parent.err, w)
       ELSE [err |-> "ok",
             w |-> FireSoon([w EXCEPT !.nodes = Collect(h2)],
                            <<Event("Changed", dirname), Event("Created", uri)>>),
             node |-> Relocate(h2, entry)]

\* cacheRule(uri, content, options)
CacheRuleOp(w, uri, content, create, overwrite) ==
    LET h == w.nodes
        basename == Basename(uri.path)
        parent == LookupParentDirectory(h, uri)
        found == MapGet(h[parent.node].entries, basename)
        entry == IF found = None THEN FreshId(h) ELSE found
        h1 == IF found = None
              THEN LET hn == [n \in DOMAIN h \cup {entry} |->
                                 IF n = entry THEN NewFile(basename) ELSE h[n]]
                   IN [hn EXCEPT ![parent.node].entries = MapSet(@, basename, entry)]
              ELSE h
        w1 == IF found = None
              THEN FireSoon([w EXCEPT !.nodes = h1], <<Event("Created", uri)>>)
              ELSE w
        h2 == [h1 EXCEPT ![entry].size = Len(content), ![entry].data = Some(content)]
    IN IF parent.err # "ok" THEN Thrown(parent.err, w)
       ELSE IF found # None /\ h[found].type = "Directory" THEN Thrown("FileIsADirectory", w)
       ELSE IF found = None /\ ~create THEN Thrown("FileNotFound", w)
       ELSE IF found # None /\ create /\ ~overwrite THEN Thrown("FileExists", w)
       ELSE [err |-> "ok",
             w |-> FireSoon([w1 EXCEPT !.nodes = Collect(h2)], <<Event("Changed", uri)>>),
             node |-> Relocate(h2, entry)]

\* a rename that takes the entry out of its old parent before it has
\* resolved the new parent
RenameOpEager(w, oldUri, newUri, overwrite) ==
    LET h == w.nodes
        target == Lookup(h, newUri, TRUE)
        entry == Lookup(h, oldUri, FALSE)
        oldParent == LookupParentDirectory(h, oldUri)
        newParent == LookupParentDirectory(h, newUri)
        newName == Basename(newUri.path)
        h1 == [h EXCEPT ![oldParent.node].entries = MapDelete(@, h[entry.node].name)]
        h2 == [h1 EXCEPT ![entry.node].name = newName]
        h3 == [h2 EXCEPT ![newParent.node].entries = MapSet(@, newName, entry.node)]
    IN IF ~overwrite /\ target.node # None THEN Thrown("FileExists", w)
       ELSE IF entry.err # "ok" THEN Thrown(entry.err, w)
       ELSE IF oldParent.err # "ok" THEN Thrown(oldParent.err, w)
       ELSE IF newParent.err # "ok" THEN Thrown(newParent.err, [w EXCEPT !.nodes = Collect(h1)])
       ELSE [err |-> "ok",
             w |-> FireSoon([w EXCEPT !.nodes = Collect(h3)],
                            <<Event("Deleted", oldUri), Event("Created", newUri)>>),
             node |-> Relocate(h3, entry.node)]

\* rename(oldUri, newUri, options)
RenameOp(w, oldUri, newUri, overwrite) ==
    LET h == w.nodes
        target == Lookup(h, newUri, TRUE)
        entry == Lookup(h, oldUri, FALSE)
        oldParent == LookupParentDirectory(h, oldUri)
        newParent == LookupParentDirectory(h, newUri)
        newName == Basename(newUri.path)
        h1 == [h EXCEPT ![oldParent.node].entries = MapDelete(@, h[entry.node].name)]
        h2 == [h1 EXCEPT ![entry.node].name = newName]
        h3 == [h2 EXCEPT ![newParent.node].entries = MapSet(@, newName, entry.node)]
    IN IF ~overwrite /\ target.node # None THEN Thrown("FileExists", w)
       ELSE IF entry.err # "ok" THEN Thrown(entry.err, w)
       ELSE IF oldParent.err # "ok" THEN Thrown(oldParent.err, w)
       ELSE IF newParent.err # "ok" THEN Thrown(newParent.err, w)
       ELSE [err |-> "ok",
             w |-> FireSoon([w EXCEPT !.nodes = Collect(h3)],
                            <<Event("Deleted", oldUri), Event("Created", newUri)>>),
             node |-> Relocate(h3, entry.node)]

\* a delete that does not look whether the entry is there
DeleteOpSilent(w, uri) ==
    LET h == w.nodes
        dirname == UriWith(uri, Dirname(uri.path))
        basename == Basename(uri.path)
        parent == LookupAsDirectory(h, dirname, FALSE)
        h1 == [h EXCEPT ![parent.node].entries = MapDelete(@, basename),
                        ![parent.node].size = @ - 1]
    IN IF dirname.err # "ok" THEN Thrown(dirname.err, w)
       ELSE IF parent.err # "ok" THEN Thrown(parent.err, w)
       ELSE [err |-> "ok",
             w |-> FireSoon([w EXCEPT !.nodes = Collect(h1)],
                            <<Event("Changed", dirname), Event("Deleted", uri)>>),
             node |-> None]

\* delete(uri)
DeleteOp(w, uri) ==
    LET h == w.nodes
        dirname == UriWith(uri, Dirname(uri.path))
        basename == Basename(uri.path)
        parent == LookupAsDirectory(h, dirname, FALSE)
        h1 == [h EXCEPT ![parent.node].entries = MapDelete(@, basename),
                        ![parent.node].size = @ - 1]
    IN IF dirname.err # "ok" THEN Thrown(dirname.err, w)
       ELSE IF parent.err # "ok" THEN Thrown(parent.err, w)
       ELSE IF ~MapHas(h[parent.node].entries, basename) THEN Thrown("FileNotFound", w)
       ELSE [err |-> "ok",
             w |-> FireSoon([w EXCEPT !.nodes = Collect(h1)],
                            <<Event("Changed", dirname), Event("Deleted", uri)>>),
             node |-> Relocate(h1, MapGet(h[parent.node].entries, basename))]

-----------------------------------------------------------------------------
(* Requests: IcrFS.options, connect and its two callbacks, writeFile.      *)
(* A url is the sequence of the string pieces the code concatenates.       *)

NoOptions ==
    [defined |-> FALSE, method |-> "", url |-> <<>>, host |-> "", username |-> "",
     password |-> "", contentType |-> "", body |-> <<>>, json |-> FALSE]

\* 'https://' + this.options.headers.Host + '/mgmt/tm'
ApiUrl(host) == <<"https://", host, "/mgmt/tm">>

\* the options object connect() builds, url already set to the folder collection
ConnectOptions(hostname, username, password) ==
    [defined |-> TRUE, method |-> "GET", url |-> ApiUrl(hostname) \o <<"/sys/folder">>,
     host |-> hostname, username |-> username, password |-> password,
     contentType |-> "", body |-> <<>>, json |-> FALSE]

\* request(url, options, callback): the request library copies the options
\* when it is called; cb names the callback and run the connect() it belongs to
Request(run, cb, o) ==
    [run |-> run, cb |-> cb, method |-> o.method, url |-> o.url, body |-> o.body,
     json |-> o.json, contentType |-> o.contentType]

RemoveAt(s, i) == SubSeq(s, 1, i - 1) \o SubSeq(s, i + 1, Len(s))

\* Buffer.from(string) and Buffer.prototype.toString(): UTF-8, one byte per
\* character for the characters used here
CharCode(c) == CASE c = "x" -> 120 [] c = "y" -> 121
CodeChar(b) == CASE b = 120 -> "x" [] b = 121 -> "y"
BufferFrom(str) == [i \in 1..Len(str) |-> CharCode(str[i])]
BufferToString(content) == [i \in 1..Len(content) |-> CodeChar(content[i])]

\* uri.path.replace(/\//g, '~')
ReplaceSlashes(s) == [i \in 1..Len(s) |-> IF s[i] = Slash THEN Tilde ELSE s[i]]

\* String.prototype.substr(0, n)
Substr0(s, n) == IF n <= 0 THEN <<>> ELSE SubSeq(s, 1, IF n < Len(s) THEN n ELSE Len(s))

\* one item of the phase-1 loop (lines 88-97): the root is skipped, what
\* Uri.parse or createDirectory throws is caught and logged
FolderItem(w, item) ==
    IF item.fullPath = <<Slash>> THEN w
    ELSE LET uri == UriParse(item.fullPath \o <<Slash>>)
         IN IF uri.err # "ok" THEN w ELSE CreateDirectoryOp(w, uri).w

\* one item of the phase-2 loop (lines 105-114)
RuleItem(w, item) ==
    IF item.fullPath = <<Slash>> THEN w
    ELSE LET uri == UriParse(item.fullPath \o Suffix)
         IN IF uri.err # "ok" THEN w
            ELSE CacheRuleOp(w, uri, BufferFrom(item.apiAnonymous), TRUE, TRUE).w

\* a phase-1 loop that the first item to throw ends
RECURSIVE ForEachFolderUncaught(_, _)
ForEachFolderUncaught(w, items) ==
    IF items = <<>> THEN w
    ELSE LET uri == UriParse(Head(items).fullPath \o <<Slash>>)
         IN IF Head(items).fullPath = <<Slash>>
            THEN ForEachFolderUncaught(w, Tail(items))
            ELSE IF uri.err # "ok" \/ CreateDirectoryOp(w, uri).err # "ok" THEN w
            ELSE ForEachFolderUncaught(CreateDirectoryOp(w, uri).w, Tail(items))

\* items.forEach(...) of phase 1 and of phase 2
RECURSIVE ForEachFolder(_, _)
ForEachFolder(w, items) ==
    IF items = <<>> THEN w ELSE ForEachFolder(FolderItem(w, Head(items)), Tail(items))

RECURSIVE ForEachRule(_, _)
ForEachRule(w, items) ==
    IF items = <<>> THEN w ELSE ForEachRule(RuleItem(w, Head(items)), Tail(items))

\* what a callback of connect() did, in order, as the run's log records it
Attempts(items, what) ==
    LET notRoot(item) == item.fullPath # <<Slash>>
    IN [i \in 1..Len(SelectSeq(items, notRoot)) |-> what]

\* the phase-1 callback after a successful response: the item loop, then the
\* phase-2 request, then the refresh of the explorer (lines 88-117)
Phase1Steps(items) ==
    <<"response1">> \o Attempts(items, "createDirectory")
        \o <<"request2", "refreshFilesExplorer">>

\* the phase-2 callback after a successful response (lines 103-115)
Phase2Steps(items) ==
    <<"response2">> \o Attempts(items, "cacheRule") \o <<"request complete">>

\* a guard that lets every connect through
NoGuard(init) == FALSE

\* `if (initialized) { return; }` (part_000 lines 142-144)
ConnectGuard(init) == init

\* a connect that issues the two requests at once
ConnectBothAtOnce(c, cf) ==
    LET o == ConnectOptions(cf.hostname, cf.username, cf.password)
        run == Len(c.runs) + 1
    IN IF c.initialized THEN [c EXCEPT !.res = "return"]
       ELSE [res |-> "connect",
             initialized |-> TRUE,
             options |-> o,
             requests |-> c.requests \o <<Request(run, "phase1", o), Request(run, "phase2", o)>>,
             runs |-> Append(c.runs, [state |-> "phase1", host |-> cf.hostname,
                                      folders |-> <<>>, rules |-> <<>>,
                                      log |-> <<"request1", "request2">>])]

\* the body of the icrfs.connect command (part_000 lines 140-168) with
\* IcrFS.connect (lines 58-81) inlined; c is [initialized, options, requests, runs]
ConnectCommandOp(c, cf) ==
    IF ConnectGuard(c.initialized) THEN [c EXCEPT !.res = "return"]
    ELSE IF cf.hostname = "" \/ cf.username = "" \/ cf.password = ""
    THEN [c EXCEPT !.res = "EvalError", !.initialized = TRUE]
    ELSE LET o == ConnectOptions(cf.hostname, cf.username, cf.password)
             run == Len(c.runs) + 1
         IN [res |-> "connect",
             initialized |-> TRUE,
             options |-> o,
             requests |-> Append(c.requests, Request(run, "phase1", o)),
             runs |-> Append(c.runs, [state |-> "phase1", host |-> cf.hostname,
                                      folders |-> <<>>, rules |-> <<>>,
                                      log |-> <<"request1">>])]

-----------------------------------------------------------------------------
(* Inputs *)

MaxItems == 2       \* items in one response of the remote
MaxRequests == 2    \* writeFile is not called while MaxRequests requests are in flight

\* uri paths the host calls the provider with
PathRoot == <<"/">>
PathA == <<"/", "a">>
PathB == <<"/", "b">>
PathAB == <<"/", "a", "/", "b">>
HostPaths == {PathRoot, PathA, PathB, PathAB}

\* file contents
Contents == {<<>>, <<120, 121>>}

\* the fullPath of the folders and of the rules the remote can hold
FolderPaths == {PathRoot, PathA, PathAB}
RulePaths == {PathB, PathAB}
RuleTexts == {<<>>, <<"x", "y">>}

Injective(s) == \A i, j \in 1..Len(s) : s[i].fullPath = s[j].fullPath => i = j

SeqsUpTo(S, n) == UNION {[1..k -> S] : k \in 0..n}

\* a folder comes with its parent folder; the order of a listing is the remote's
ParentListed(s) ==
    \A i \in 1..Len(s) :
        s[i].fullPath = PathRoot \/ Dirname(s[i].fullPath) = PathRoot
            \/ \E j \in 1..Len(s) : s[j].fullPath = Dirname(s[i].fullPath)

FolderListings ==
    {s \in SeqsUpTo([fullPath : FolderPaths], MaxItems) : Injective(s) /\ ParentListed(s)}

RuleListings ==
    {s \in SeqsUpTo([fullPath : RulePaths, apiAnonymous : RuleTexts], MaxItems) : Injective(s)}

\* what the request library hands to a callback: an error, a body that
\* JSON.parse rejects, or a body with items
Responses(listings) ==
    {[kind |-> "error", items |-> <<>>], [kind |-> "unparseable", items |-> <<>>]}
        \cup {[kind |-> "ok", items |-> l] : l \in listings}

CompleteConf == [hostname |-> "bigip", username |-> "admin", password |-> "secret"]

-----------------------------------------------------------------------------
(* State *)

World ==
    [nodes |-> nodes, buf |-> bufferedEvents, handle |-> fireSoonHandle,
     timers |-> timers, owed |-> owed, rearmed |-> rearmed]

SetWorld(w) ==
    /\ nodes' = w.nodes
    /\ bufferedEvents' = w.buf
    /\ fireSoonHandle' = w.handle
    /\ timers' = w.timers
    /\ owed' = w.owed
    /\ rearmed' = w.rearmed

\* the bounds: the heap, the buffer and the size counters stay within
\* MaxNodes, MaxBuf and MaxSize
Fits(w) ==
    /\ Cardinality(DOMAIN w.nodes) <= MaxNodes
    /\ Len(w.buf) <= MaxBuf
    /\ \A n \in DOMAIN w.nodes : w.nodes[n].size \in (0 - MaxSize)..MaxSize

\* the record of a handler: which one ran, how it ended (the error thrown,
\* "ok" when none), where the node it worked on is now, and how many
\* change records it gave to the emitter
Did(op, res, node, count) == [op |-> op, res |-> res, node |-> node, count |-> count]

Init ==
    /\ nodes = [n \in {Root} |-> NewDirectory(EmptyStr)]
    /\ bufferedEvents = <<>>
    /\ fireSoonHandle = 0
    /\ timers = {}
    /\ options = NoOptions
    /\ initialized = FALSE
    /\ conf = CompleteConf
    /\ requests = <<>>
    /\ runs = <<>>
    /\ owed = <<>>
    /\ misfired = FALSE
    /\ rearmed = FALSE
    /\ last = Did("activate", "ok", None, 0)

-----------------------------------------------------------------------------
(* The provider's operations, called by the host *)

CreateDirectory(p) ==
    LET r == CreateDirectoryOp(World, HostUri(p))
    IN /\ Fits(r.w)
       /\ SetWorld(r.w)
       /\ last' = Did("createDirectory", r.err, r.node, 0)
       /\ UNCHANGED <<options, initialized, conf, requests, runs, misfired>>

CacheRule(p, content, create, overwrite) ==
    LET r == CacheRuleOp(World, HostUri(p), content, create, overwrite)
    IN /\ Fits(r.w)
       /\ SetWorld(r.w)
       /\ last' = Did("cacheRule", r.err, r.node, 0)
       /\ UNCHANGED <<options, initialized, conf, requests, runs, misfired>>

Rename(a, b, overwrite) ==
    LET r == RenameOp(World, HostUri(a), HostUri(b), overwrite)
    IN /\ Fits(r.w)
       /\ SetWorld(r.w)
       /\ last' = Did("rename", r.err, r.node, 0)
       /\ UNCHANGED <<options, initialized, conf, requests, runs, misfired>>

Delete(p) ==
    LET r == DeleteOp(World, HostUri(p))
    IN /\ Fits(r.w)
       /\ SetWorld(r.w)
       /\ last' = Did("delete", r.err, r.node, 0)
       /\ UNCHANGED <<options, initialized, conf, requests, runs, misfired>>

\* the callback _fireSoon gave to setTimeout, for the armed timeout t
TimerFire(t) ==
    /\ t \in timers
    /\ timers' = timers \ {t}
    /\ misfired' = (misfired \/ ~SubBag(EmitterFire(bufferedEvents), owed))
    /\ owed' = RemoveAll(owed, EmitterFire(bufferedEvents))
    /\ bufferedEvents' = Truncate(bufferedEvents)
    /\ rearmed' = FALSE
    /\ last' = Did("fire", "ok", None, Len(EmitterFire(bufferedEvents)))
    /\ UNCHANGED <<nodes, fireSoonHandle, options, initialized, conf, requests, runs>>


\* writeFile(uri, content, options): the request is built in this.options;
\* nothing of the tree is read or written
WriteFileOptions(o, path, content) ==
    [o EXCEPT !.url = ApiUrl(o.host) \o <<"/ltm/rule/">>
                          \o Substr0(ReplaceSlashes(path), Len(path) - 5),
              !.method = "PUT",
              !.contentType = "application/json",
              !.body = BufferToString(content),
              !.json = TRUE]

WriteFile(p, content) ==
    /\ Len(requests) < MaxRequests
    /\ IF options.defined
       THEN /\ options' = WriteFileOptions(options, p, content)
            /\ requests' = Append(requests, Request(0, "save", options'))
            /\ last' = Did("writeFile", "ok", None, 0)
       ELSE /\ UNCHANGED <<options, requests>>
            /\ last' = Did("writeFile", "TypeError", None, 0)
    /\ UNCHANGED <<nodes, bufferedEvents, fireSoonHandle, timers, initialized, conf,
                   runs, owed, misfired, rearmed>>

\* the callback of writeFile's request: it logs what it got
SaveResponse(i) ==
    /\ i \in 1..Len(requests)
    /\ requests[i].cb = "save"
    /\ requests' = RemoveAt(requests, i)
    /\ last' = Did("saved", "ok", None, 0)
    /\ UNCHANGED <<nodes, bufferedEvents, fireSoonHandle, timers, options, initialized,
                   conf, runs, owed, misfired, rearmed>>

-----------------------------------------------------------------------------
(* The commands of activate() and the callbacks of connect() *)

Connection ==
    [res |-> "", initialized |-> initialized, options |-> options,
     requests |-> requests, runs |-> runs]

SetConnection(c) ==
    /\ initialized' = c.initialized
    /\ options' = c.options
    /\ requests' = c.requests
    /\ runs' = c.runs

\* icrfs.connect
ConnectCommand ==
    LET c == ConnectCommandOp(Connection, conf)
    IN /\ Len(c.runs) <= MaxRuns
       /\ SetConnection(c)
       /\ last' = Did("connect", c.res, None, 0)
       /\ UNCHANGED <<nodes, bufferedEvents, fireSoonHandle, timers, conf, owed,
                      misfired, rearmed>>

\* the loop of icrfs.refresh (part_000 lines 133-135): every name that
\* readDirectory('icrfs:/') lists is deleted; a delete that throws ends the
\* command
RECURSIVE DeleteListed(_, _)
DeleteListed(r, listed) ==
    IF listed = <<>> \/ r.err # "ok" THEN r
    ELSE DeleteListed(DeleteOp(r.w, HostUri(<<Slash>> \o Head(listed)[1])), Tail(listed))

\* icrfs.refresh, the icrfs.connect it executes included
RefreshCommand ==
    LET listed == ReadDirectory(nodes, HostUri(PathRoot)).result
        r == DeleteListed([err |-> "ok", w |-> World, node |-> None], listed)
        c == IF r.err = "ok"
             THEN ConnectCommandOp([Connection EXCEPT !.initialized = FALSE], conf)
             ELSE [Connection EXCEPT !.res = r.err]
    IN /\ Fits(r.w)
       /\ Len(c.runs) <= MaxRuns
       /\ SetWorld(r.w)
       /\ SetConnection(c)
       /\ last' = Did("refresh", c.res, None, 0)
       /\ UNCHANGED <<conf, misfired>>

\* the callback of the phase-1 request (lines 81-118)
FolderResponse(i, resp) ==
    /\ i \in 1..Len(requests)
    /\ requests[i].cb = "phase1"
    /\ LET run == requests[i].run
       IN IF resp.kind # "ok"
          THEN /\ requests' = RemoveAt(requests, i)
               /\ runs' = [runs EXCEPT ![run].state = "failed1", ![run].log = Append(@, "throw")]
               /\ last' = Did("phase1", resp.kind, None, 0)
               /\ UNCHANGED <<nodes, bufferedEvents, fireSoonHandle, timers, options, owed, rearmed>>
          ELSE LET w == ForEachFolder(World, resp.items)
                   o == [options EXCEPT !.url = ApiUrl(runs[run].host) \o <<"/ltm/rule">>]
               IN /\ Fits(w)
                  /\ SetWorld(w)
                  /\ options' = o
                  /\ requests' = Append(RemoveAt(requests, i), Request(run, "phase2", o))
                  /\ runs' = [runs EXCEPT ![run].state = "phase2",
                                          ![run].folders = resp.items,
                                          ![run].log = @ \o Phase1Steps(resp.items)]
                  /\ last' = Did("phase1", "ok", None, 0)
    /\ UNCHANGED <<initialized, conf, misfired>>

\* the callback of the phase-2 request (lines 99-116)
RuleResponse(i, resp) ==
    /\ i \in 1..Len(requests)
    /\ requests[i].cb = "phase2"
    /\ LET run == requests[i].run
       IN IF resp.kind # "ok"
          THEN /\ runs' = [runs EXCEPT ![run].state = "failed2", ![run].log = Append(@, "throw")]
               /\ last' = Did("phase2", resp.kind, None, 0)
               /\ UNCHANGED <<nodes, bufferedEvents, fireSoonHandle, timers, owed, rearmed>>
          ELSE LET w == ForEachRule(World, resp.items)
               IN /\ Fits(w)
                  /\ SetWorld(w)
                  /\ runs' = [runs EXCEPT ![run].state = "complete",
                                          ![run].rules = resp.items,
                                          ![run].log = @ \o Phase2Steps(resp.items)]
                  /\ last' = Did("phase2", "ok", None, 0)
    /\ requests' = RemoveAt(requests, i)
    /\ UNCHANGED <<options, initialized, conf, misfired>>

\* the settings conf.icrfs.bigip.* the user can have: each of hostname,
\* username and password set or left at its default ''
Confs ==
    {CompleteConf,
     [CompleteConf EXCEPT !.hostname = ""],
     [CompleteConf EXCEPT !.username = ""],
     [CompleteConf EXCEPT !.password = ""]}

\* the user edits the settings; icrfs.connect reads them on each call
\* (part_000 lines 147-149)
Configure(cf) ==
    /\ cf # conf
    /\ conf' = cf
    /\ last' = Did("configure", "ok", None, 0)
    /\ UNCHANGED <<nodes, bufferedEvents, fireSoonHandle, timers, options, initialized,
                   requests, runs, owed, misfired, rearmed>>

-----------------------------------------------------------------------------
(* Specifications *)

\* the paths of the host's calls: the root is not created, written or
\* renamed by the host's explorer
NonRootPaths == HostPaths \ {PathRoot}
FilePaths == {p \o Suffix : p \in RulePaths}

Mutate ==
    \/ \E p \in NonRootPaths : CreateDirectory(p)
    \/ \E p \in NonRootPaths, content \in Contents, create \in BOOLEAN, overwrite \in BOOLEAN :
           CacheRule(p, content, create, overwrite)
    \/ \E a \in NonRootPaths, b \in NonRootPaths, overwrite \in BOOLEAN : Rename(a, b, overwrite)
    \/ \E p \in HostPaths : Delete(p)

TimerFires == \E t \in timers : TimerFire(t)

Persist ==
    \/ \E p \in FilePaths, content \in Contents \ {<<>>} : WriteFile(p, content)
    \/ \E i \in 1..Len(requests) : SaveResponse(i)

Populate ==
    \/ ConnectCommand
    \/ RefreshCommand
    \/ \E i \in 1..Len(requests), resp \in Responses(FolderListings) : FolderResponse(i, resp)
    \/ \E i \in 1..Len(requests), resp \in Responses(RuleListings) : RuleResponse(i, resp)

\* the whole extension: every handler, in any order
Next == Mutate \/ TimerFires \/ Persist \/ Populate \/ \E cf \in Confs : Configure(cf)

Spec == Init /\ [][Next]_vars

\* The tree on its own: the host's calls come more than the delay of
\* _fireSoon apart, so that each finds the buffer delivered.  No mutator
\* reads the buffer or the timer.
Quiet == bufferedEvents = <<>>

NextTree ==
    \/ Quiet /\ \E p \in NonRootPaths : CreateDirectory(p)
    \/ Quiet /\ \E p \in NonRootPaths, content \in Contents, create \in BOOLEAN, overwrite \in BOOLEAN :
                    CacheRule(p, content, create, overwrite)
    \/ Quiet /\ \E a \in NonRootPaths, b \in NonRootPaths, overwrite \in BOOLEAN :
                    Rename(a, b, overwrite)
    \/ Quiet /\ \E p \in HostPaths : Delete(p)
    \/ TimerFires

SpecTree == Init /\ [][NextTree]_vars

\* rename without overwrite as the provider's interface offers it, the root
\* path included, on trees that createDirectory and cacheRule built
NextRename ==
    \/ Quiet /\ \E p \in NonRootPaths : CreateDirectory(p)
    \/ Quiet /\ \E p \in NonRootPaths, content \in Contents : CacheRule(p, content, TRUE, TRUE)
    \/ Quiet /\ \E a \in HostPaths, b \in HostPaths : Rename(a, b, FALSE)
    \/ TimerFires

SpecRename == Init /\ [][NextRename]_vars

\* The notifier under bursts: mutators called back to back, the timeout
\* firing at any moment in between.
NextNotifier ==
    \/ CreateDirectory(PathA)
    \/ CacheRule(PathB, <<120, 121>>, TRUE, TRUE)
    \/ Rename(PathA, PathB, TRUE)
    \/ \E p \in {PathA, PathB} : Delete(p)
    \/ TimerFires

SpecNotifier == Init /\ [][NextNotifier]_vars

\* the timeout callback runs once the delay is over: Node's event loop does
\* not starve a timer that is due
FairNotifier == SpecNotifier /\ WF_vars(TimerFires)

\* Population: the commands, the callbacks of the two requests and the
\* timeout, the host leaving the tree alone meanwhile.
NextConnect ==
    \/ Populate
    \/ TimerFires

SpecConnect == Init /\ [][NextConnect]_vars

-----------------------------------------------------------------------------
(* The change notifier *)

\* no record was given to the emitter twice, every record handed to
\* _fireSoon and not yet given to the emitter is in the buffer, and a buffer
\* that holds records has its timeout armed
Accounted ==
    /\ ~misfired
    /\ owed = bufferedEvents
    /\ (bufferedEvents # <<>> => fireSoonHandle \in timers)

\* C1: every change record appended to the pending batch is delivered to the
\* host in exactly one batch notification: none is dropped, none is
\* delivered twice, and a pending batch is eventually delivered and the
\* buffer left empty.
C1_ExactlyOnce ==
    /\ []Accounted
    /\ (bufferedEvents # <<>>) ~> (bufferedEvents = <<>> /\ owed = <<>>)

\* the timeout fired on a batch that two or more calls of mutators had
\* filled, and everything is delivered
C1_Witness ==
    /\ last.op = "fire"
    /\ last.count >= 4
    /\ bufferedEvents = <<>>
    /\ owed = <<>>
    /\ ~misfired

\* C2: a change record that arrives while the delay timer is pending does
\* not reset or re-arm the timer: the timeout that is pending when a batch is
\* delivered is the one armed by the batch's first record.  (rearmed records
\* that clearTimeout cancelled an armed timeout since the last delivery.)
C2_TimerNotReset == ~rearmed

-----------------------------------------------------------------------------
(* Population *)

Positions(log, what) == {i \in 1..Len(log) : log[i] = what}

InFlight(run, cb) == \E i \in 1..Len(requests) : requests[i].run = run /\ requests[i].cb = cb

\* C3: within one connect run the phase-2 request is issued only after the
\* phase-1 response has arrived and every one of its items has been
\* processed, and no object is inserted before a container of the same run
\* is created.
C3_TwoPhaseOrdering ==
    \A r \in 1..Len(runs) :
        LET log == runs[r].log
        IN /\ \A i \in Positions(log, "request2") :
                  /\ \E j \in Positions(log, "response1") : j < i
                  /\ \A j \in Positions(log, "createDirectory") : j < i
           /\ \A i \in Positions(log, "cacheRule") :
                  /\ \E j \in Positions(log, "request2") : j < i
                  /\ \A j \in Positions(log, "createDirectory") : j < i
           /\ InFlight(r, "phase2") => runs[r].state = "phase2" /\ ~InFlight(r, "phase1")

\* a run that created a container and then inserted an object has completed
C3_Witness ==
    \E r \in 1..Len(runs) :
        /\ runs[r].state = "complete"
        /\ Positions(runs[r].log, "createDirectory") # {}
        /\ Positions(runs[r].log, "cacheRule") # {}

IsContainer(h, path) ==
    LET r == Lookup(h, HostUri(path), TRUE)
    IN r.node # None /\ h[r.node].type = "Directory"

Listed(items, path) == \E i \in 1..Len(items) : items[i].fullPath = path

\* what the tree holds of a listing of folders and a listing of rules
Populated(h, folders, rules) ==
    /\ \A i \in 1..Len(folders) :
           folders[i].fullPath # PathRoot => IsContainer(h, folders[i].fullPath)
    /\ \A i \in 1..Len(rules) :
           (Dirname(rules[i].fullPath) = PathRoot \/ Listed(folders, Dirname(rules[i].fullPath)))
               => ReadFile(h, HostUri(rules[i].fullPath \o Suffix))
                      = [err |-> "ok", data |-> Some(BufferFrom(rules[i].apiAnonymous))]

\* C4: when both requests of a connect succeed, the tree afterwards holds a
\* container for every returned container item but the root and, for every
\* returned object item whose parent container was returned, an object at
\* fullPath plus the suffix whose readFile gives the fetched payload.
\* (Stated of the first connect, when its phase-2 callback returns.)
C4_PopulationResult ==
    (Len(runs) = 1 /\ runs[1].state = "complete" /\ last.op = "phase2")
        => Populated(nodes, runs[1].folders, runs[1].rules)

\* C5: when the request of either phase fails, the connect attempt fails and
\* the engine is Disconnected again (`initialized` is false), so that the
\* next connect starts a new run.
C5_FailureReverts ==
    (runs # <<>> /\ runs[Len(runs)].state \in {"failed1", "failed2"}) => ~initialized

\* how often a step is in a run's log
Counted(log, what) == Cardinality(Positions(log, what))

\* C6: a connect issued while the engine is Connecting or Populated
\* (`initialized` is true) is a no-op: it issues no request, starts no run
\* and changes nothing; every run issues one containers request and at most
\* one objects request.
C6_DuplicateConnect ==
    /\ [](\A r \in 1..Len(runs) :
              /\ Counted(runs[r].log, "request1") = 1
              /\ Counted(runs[r].log, "request2") <= 1)
    /\ [][(last'.op = "connect" /\ initialized)
              => /\ last'.res = "return"
                 /\ UNCHANGED <<nodes, bufferedEvents, fireSoonHandle, timers, options,
                                initialized, conf, requests, runs>>]_vars

\* a second connect came while the first run was waiting for its phase-1
\* response, and there is still one run and one request
C6_Witness ==
    /\ last.op = "connect"
    /\ last.res = "return"
    /\ Len(runs) = 1
    /\ runs[1].state = "phase1"
    /\ Len(requests) = 1

\* C7: population complete (the refresh of the host's explorer) is reported
\* only after the phase-2 response has been received and every object item
\* processed.
C7_ReportAfterPhase2 ==
    \A r \in 1..Len(runs) :
        \A i \in Positions(runs[r].log, "refreshFilesExplorer") :
            \E j \in Positions(runs[r].log, "request complete") : j < i

-----------------------------------------------------------------------------
(* The tree *)

\* C8: whenever rename(A, B, {overwrite: false}) succeeds, A resolves to
\* nothing afterwards and B resolves to the very node that was at A, named
\* by B's last segment, its payload and its children as they were; B below
\* A and A the root path included.
C8_RenameInvariant ==
    [][\A a \in HostPaths, b \in HostPaths :
           (Rename(a, b, FALSE) /\ last'.res = "ok") =>
               LET old == Lookup(nodes, HostUri(a), TRUE).node
                   new == Lookup(nodes', HostUri(b), TRUE).node
               IN /\ Lookup(nodes', HostUri(a), TRUE).node = None
                  /\ new # None
                  /\ new = last'.node
                  /\ nodes'[new].name = Basename(b)
                  /\ nodes'[new].type = nodes[old].type
                  /\ nodes'[new].data = nodes[old].data
                  /\ Len(nodes'[new].entries) = Len(nodes[old].entries)
                  /\ \A i \in 1..Len(nodes[old].entries) :
                         nodes'[new].entries[i].name = nodes[old].entries[i].name]_vars

\* the parent of path p resolves to a Directory
ParentExists(h, p) == LookupParentDirectory(h, HostUri(p)).err = "ok"

\* C9: for every path P whose parent container exists and that does not
\* name a container, and every payload, the empty one included,
\* cacheRule(P, bytes, {create: true, overwrite: true}) succeeds, readFile(P)
\* then returns exactly bytes and stat(P) reports the payload's length.
C9_RoundTrip ==
    [][\A p \in NonRootPaths, bytes \in Contents :
           (/\ CacheRule(p, bytes, TRUE, TRUE)
            /\ ParentExists(nodes, p)
            /\ ~IsContainer(nodes, p))
               => /\ last'.res = "ok"
                  /\ ReadFile(nodes', HostUri(p)) = [err |-> "ok", data |-> Some(bytes)]
                  /\ Stat(nodes', HostUri(p)) = [err |-> "ok", type |-> "File", size |-> Len(bytes)]]_vars

\* cacheRule stored the empty payload, and readFile returns it
C9_Witness ==
    /\ last.op = "cacheRule"
    /\ last.res = "ok"
    /\ \E p \in NonRootPaths :
           /\ Lookup(nodes, HostUri(p), TRUE).node = last.node
           /\ ReadFile(nodes, HostUri(p)) = [err |-> "ok", data |-> Some(<<>>)]
           /\ Stat(nodes, HostUri(p)).size = 0

\* the last segment of p is not a key of the entries of p's parent
Missing(h, p) ==
    LET parent == LookupParentDirectory(h, HostUri(p))
    IN parent.err = "ok" /\ ~MapHas(h[parent.node].entries, Basename(p))

\* C10: delete(P) on a path whose last segment is absent from its parent's
\* entries throws FileNotFound and changes neither the tree nor the buffer
\* of change records; and a delete(P) that succeeds leaves P's last segment
\* absent from its parent's entries, so that a second delete(P) throws
\* FileNotFound.
C10_DeleteMissing ==
    [][\A p \in HostPaths :
           /\ (Delete(p) /\ Missing(nodes, p))
                  => /\ last'.res = "FileNotFound"
                     /\ UNCHANGED <<nodes, bufferedEvents, timers, fireSoonHandle>>
           /\ (Delete(p) /\ last'.res = "ok") => Missing(nodes', p)]_vars

\* a delete threw FileNotFound in a tree where the parent of every path of
\* HostPaths is a Directory: the missing last segment is what it threw for
C10_Witness ==
    /\ last.op = "delete"
    /\ last.res = "FileNotFound"
    /\ IsContainer(nodes, PathA)

-----------------------------------------------------------------------------
(* Population with items that fail *)

\* listings with items whose insertion fails: an empty fullPath, one that
\* Uri.parse rejects, a folder or a rule whose parent is not there, a rule
\* whose file name is the name of a folder
PathC == <<"/", "c">>
PathSlashSlashA == <<"/", "/", "a">>
FaultyFolderPaths == {EmptyStr, PathSlashSlashA, PathA, PathAB, PathB \o Suffix}
FaultyRulePaths == {EmptyStr, PathB, PathC, PathAB}

FaultyFolderListings ==
    {s \in SeqsUpTo([fullPath : FaultyFolderPaths], MaxItems) : Injective(s)}

FaultyRuleListings ==
    {s \in SeqsUpTo([fullPath : FaultyRulePaths, apiAnonymous : {<<"x", "y">>}], MaxItems) :
        Injective(s)}

NextFaulty ==
    \/ ConnectCommand
    \/ \E i \in 1..Len(requests), resp \in Responses(FaultyFolderListings) : FolderResponse(i, resp)
    \/ \E i \in 1..Len(requests), resp \in Responses(FaultyRuleListings) : RuleResponse(i, resp)
    \/ TimerFires

SpecFaulty == Init /\ [][NextFaulty]_vars

\* an absolute path with no empty segment
WellFormed(path) ==
    /\ Len(path) >= 2
    /\ path[1] = Slash
    /\ path[Len(path)] # Slash
    /\ \A i \in 1..(Len(path) - 1) : ~(path[i] = Slash /\ path[i + 1] = Slash)

\* item i of a folder listing can be inserted when its turn comes: its path
\* is well formed and its parent is the root or an earlier item that could
RECURSIVE ValidFolder(_, _)
ValidFolder(items, i) ==
    /\ WellFormed(items[i].fullPath)
    /\ \/ Dirname(items[i].fullPath) = PathRoot
       \/ \E j \in 1..(i - 1) :
              items[j].fullPath = Dirname(items[i].fullPath) /\ ValidFolder(items, j)

\* a rule item can be inserted into tree h: its path is well formed, its
\* parent is a container of h and its file name is not the name of one
ValidRule(h, item) ==
    /\ WellFormed(item.fullPath)
    /\ IsContainer(h, Dirname(item.fullPath))
    /\ ~IsContainer(h, item.fullPath \o Suffix)

\* C11: a failure while inserting one item of a population phase is
\* swallowed for that item only: when the callback of a phase has run,
\* every valid item of its listing is in the tree (a container per valid
\* folder item, a readable file with the fetched payload per valid rule
\* item), and the phase ran to its end: phase 1 issued the phase-2
\* request, phase 2 completed.
C11_PerItemFaultTolerance ==
    \A r \in 1..Len(runs) :
        /\ (last.op = "phase1" /\ last.res = "ok" /\ runs[r].state = "phase2")
               => /\ InFlight(r, "phase2")
                  /\ \A i \in 1..Len(runs[r].folders) :
                         ValidFolder(runs[r].folders, i)
                             => IsContainer(nodes, runs[r].folders[i].fullPath)
        /\ (last.op = "phase2" /\ last.res = "ok" /\ runs[r].state = "complete")
               => \A i \in 1..Len(runs[r].rules) :
                      ValidRule(nodes, runs[r].rules[i])
                          => ReadFile(nodes, HostUri(runs[r].rules[i].fullPath \o Suffix))
                                 = [err |-> "ok",
                                    data |-> Some(BufferFrom(runs[r].rules[i].apiAnonymous))]

\* phase 2 completed on a listing whose first item failed and whose second
\* item is in the tree
C11_Witness ==
    /\ last.op = "phase2"
    /\ last.res = "ok"
    /\ Len(runs) = 1
    /\ runs[1].state = "complete"
    /\ Len(runs[1].rules) = 2
    /\ ~ValidRule(nodes, runs[1].rules[1])
    /\ ValidRule(nodes, runs[1].rules[2])
    /\ Len(runs[1].folders) = 2
    /\ ~ValidFolder(runs[1].folders, 1)
    /\ ValidFolder(runs[1].folders, 2)

-----------------------------------------------------------------------------
(* Coalescing *)

\* C12: mutating calls issued back to back, with no timeout firing between
\* them, produce one delivery that holds every record they appended: at
\* most one timeout is armed at any time, and when it fires the emitter
\* gets every record that is owed and no timeout is left to fire again.
C12_Coalescing ==
    /\ [](Cardinality(timers) <= 1)
    /\ [][TimerFires => /\ EmitterFire(bufferedEvents) = owed
                        /\ last'.count = Len(owed)
                        /\ owed' = <<>>
                        /\ bufferedEvents' = <<>>
                        /\ timers' = {}]_vars

\* one delivery carried the records of two or more calls and nothing is
\* left to deliver
C12_Witness ==
    /\ last.op = "fire"
    /\ last.count >= 3
    /\ timers = {}
    /\ fireSoonHandle # 0

-----------------------------------------------------------------------------
(* The write-through writeFile *)

\* Saves at any moment of a connect: before it, while a request of it is in
\* flight, after it.
NextPersist ==
    \/ ConnectCommand
    \/ \E i \in 1..Len(requests), resp \in Responses(FolderListings) : FolderResponse(i, resp)
    \/ \E i \in 1..Len(requests), resp \in Responses(RuleListings) : RuleResponse(i, resp)
    \/ \E p \in FilePaths, content \in Contents \ {<<>>} : WriteFile(p, content)
    \/ \E i \in 1..Len(requests) : SaveResponse(i)
    \/ TimerFires

SpecPersist == Init /\ [][NextPersist]_vars

\* the remote's name of the rule a file path stands for: the path without
\* its suffix, every slash a tilde
RemoteId(path) == ReplaceSlashes(SubSeq(path, 1, Len(path) - Len(Suffix)))

\* request q updates the rule of file path p with the text of content
IsUpdateOf(q, p, content) ==
    /\ q.cb = "save"
    /\ q.method = "PUT"
    /\ SubSeq(q.url, 1, 4) = ApiUrl(options.host) \o <<"/ltm/rule/">>
    /\ SubSeq(q.url, 5, Len(q.url)) = RemoteId(p)
    /\ q.body = BufferToString(content)

\* C13: writeFile(path, payload) issues exactly one update request for the
\* remote resource derived from the path and leaves the tree (nodes,
\* payloads, sizes, entries) and the buffer of change records as they
\* were, so that readFile of the path returns what it returned before.
C13_PersistFrame ==
    [][\A p \in FilePaths, content \in Contents \ {<<>>} :
           WriteFile(p, content) =>
               /\ Len(requests') = Len(requests) + 1
               /\ SubSeq(requests', 1, Len(requests)) = requests
               /\ IsUpdateOf(requests'[Len(requests')], p, content)
               /\ UNCHANGED <<nodes, bufferedEvents, timers, fireSoonHandle>>
               /\ ReadFile(nodes', HostUri(p)) = ReadFile(nodes, HostUri(p))]_vars

-----------------------------------------------------------------------------
(* Failing mutators *)

Mutators == {"createDirectory", "cacheRule", "rename", "delete"}

\* C14: whenever createDirectory, cacheRule, rename or delete throws
\* (FileNotFound, FileNotADirectory, FileIsADirectory, FileExists), the
\* tree is exactly as it was before the call and no change record has been
\* appended to the buffer.
C14_AtomicOnFailure ==
    [][(last'.op \in Mutators /\ last'.res # "ok")
           => /\ last'.res \in {"FileNotFound", "FileNotADirectory", "FileIsADirectory",
                                "FileExists"}
              /\ UNCHANGED <<nodes, bufferedEvents, owed, timers, fireSoonHandle>>]_vars

\* a rename threw FileNotFound in a tree that holds the file /b and no /a
C14_Witness ==
    /\ last.op = "rename"
    /\ last.res = "FileNotFound"
    /\ LookupAsFile(nodes, HostUri(PathB), TRUE).err = "ok"
    /\ Lookup(nodes, HostUri(PathB), TRUE).node # None
    /\ Lookup(nodes, HostUri(PathA), TRUE).node = None

-----------------------------------------------------------------------------
(* Order of a listing *)

\* the listings that hold the items of s, each once, in any order
Permutations(s) ==
    {t \in [1..Len(s) -> {s[i] : i \in 1..Len(s)}] :
        \A i \in 1..Len(s) : \E j \in 1..Len(s) : t[j] = s[i]}

\* the provider as the constructor leaves it
FreshWorld ==
    [nodes |-> [n \in {Root} |-> NewDirectory(EmptyStr)], buf |-> <<>>, handle |-> 0,
     timers |-> {}, owed |-> <<>>, rearmed |-> FALSE]

\* the folder paths that are containers of tree h
Containers(h) == {p \in FolderPaths : IsContainer(h, p)}

\* C15: the tree a population phase leaves does not depend on the order in
\* which the remote returns the items: phase 1 of the first connect yields,
\* for every permutation of its listing, the same set of containers.
C15_OrderIndependence ==
    (Len(runs) = 1 /\ last.op = "phase1" /\ last.res = "ok")
        => \A t \in Permutations(runs[1].folders) :
               Containers(ForEachFolder(FreshWorld, t).nodes) = Containers(nodes)

-----------------------------------------------------------------------------
(* Invariants of the tree *)

\* C16: after any sequence of createDirectory, cacheRule, rename and delete
\* calls every Directory's size equals the number of entries of its Map and
\* is never negative.
C16_EntryCount ==
    \A n \in DOMAIN nodes :
        nodes[n].type = "Directory"
            => nodes[n].size = Len(nodes[n].entries) /\ nodes[n].size >= 0

\* the places (Directory, position in its entries) that refer to node c
Holders(h, c) ==
    {x \in (DOMAIN h) \X (1..MaxNodes) :
        x[2] <= Len(h[x[1]].entries) /\ h[x[1]].entries[x[2]].node = c}

\* C17: after any sequence of mutator calls the structure is a tree rooted
\* at the root: the root keeps its empty name and is an entry of no
\* Directory, every node is held by at most one Directory, under a key
\* equal to its name, and a node that a call moved is still reachable from
\* the root.
C17_TreeShape ==
    /\ nodes[Root].name = EmptyStr
    /\ Holders(nodes, Root) = {}
    /\ \A c \in DOMAIN nodes :
           /\ Cardinality(Holders(nodes, c)) <= 1
           /\ \A x \in Holders(nodes, c) : nodes[x[1]].entries[x[2]].name = nodes[c].name
    /\ (last.op = "rename" /\ last.res = "ok") => last.node # None

-----------------------------------------------------------------------------
(* The requests of connect and of writeFile *)

\* a read of a collection of the remote: GET, no body
IsReadOf(q, collection) ==
    /\ q.method = "GET"
    /\ q.body = <<>>
    /\ q.json = FALSE
    /\ q.contentType = ""
    /\ Len(q.url) = 4
    /\ q.url[4] = collection

\* C18: however a writeFile interleaves with a connect in flight, the two
\* requests of the connect are read requests (GET, no body), the first for
\* the folders and the second for the rules: a writeFile between the issue
\* of phase 1 and its response changes neither the method nor the body nor
\* the target of the phase-2 request.
C18_RequestIsolation ==
    \A i \in 1..Len(requests) :
        /\ requests[i].cb = "phase1" => IsReadOf(requests[i], "/sys/folder")
        /\ requests[i].cb = "phase2" => IsReadOf(requests[i], "/ltm/rule")

-----------------------------------------------------------------------------
(* Refresh and connect *)

\* the runs that have a request outstanding
RunsInFlight == {requests[i].run : i \in 1..Len(requests)} \ {0}

\* C19: over any sequence of connect and refresh commands at most one
\* population run is in flight at any time: a refresh starts no second run
\* while a request of an earlier run is outstanding.
C19_SingleRun == Cardinality(RunsInFlight) <= 1

\* Connects under settings the user edits in between.
NextConfig ==
    \/ \E cf \in Confs : Configure(cf)
    \/ ConnectCommand
    \/ \E i \in 1..Len(requests), resp \in Responses(FolderListings) : FolderResponse(i, resp)
    \/ \E i \in 1..Len(requests), resp \in Responses(RuleListings) : RuleResponse(i, resp)
    \/ TimerFires

SpecConfig == Init /\ [][NextConfig]_vars

\* C20: when hostname, username or password is missing, connect issues no
\* request, leaves the tree unchanged and does not enter Connecting or
\* Populated (`initialized` stays false), so that a later connect with
\* complete settings starts a population run.
C20_RefusedConnect ==
    /\ [][(last'.op = "connect" /\ last'.res = "EvalError")
              => UNCHANGED <<nodes, bufferedEvents, requests, runs, initialized>>]_vars
    /\ []((last.op = "connect" /\ last.res = "EvalError") => ~initialized)
    /\ [][(ConnectCommand /\ conf = CompleteConf /\ runs = <<>>)
              => (last'.res = "connect" /\ Len(runs') = 1)]_vars

====
